---- MODULE Spec2Model ----
(***************************************************************************)
(* Model of the tool-bridging client MCPClient (src/lib/plugin-interface.js *)
(* lines 213-829): configuration loading, the startup connection sweep,     *)
(* tool discovery, the execution router with its simulation decision, the  *)
(* filesystem and web-search strategies, the status queries and shutdown,  *)
(* and of the execute endpoint of the HTTP layer that calls it              *)
(* (src/EXPERIMENT.md lines 220-264).                                       *)
(*                                                                          *)
(* JavaScript values are modelled as follows.  An object is a record or a   *)
(* function from keys to values; `undefined` (an absent key, an unset       *)
(* environment variable) is the marker Missing / Unset; a function that can *)
(* throw returns either its value or a record [thrown |-> message].         *)
(* Timestamps and elapsed times of results are left out: no operation reads *)
(* them.                                                                    *)
(***************************************************************************)
EXTENDS Integers, Sequences, FiniteSets, TLC

VARIABLES
    phase,      \* lifecycle of the client: new, sweeping, running, failed, stopped
    configFile, \* what the configuration source holds (absent, malformed, ...)
    env,        \* process.env: variable name -> value ("" when unset)
    servers,    \* this.servers: Map serverName -> serverInfo
    tasks,      \* the connectToServer calls of the startup sweep, per server
    fs,         \* the filesystem: mutable path -> content, or NoFile
    resp,       \* outcome of the executeTool call made by the latest step
    defs,       \* the server definitions the configuration source holds
    lastWrite,  \* history: the latest write_file call that returned success
    listed      \* history: the latest listing returned, the disk unchanged since

vars == <<phase, configFile, env, servers, tasks, fs, resp, defs, lastWrite, listed>>

-----------------------------------------------------------------------------
(* Values *)

Unset == ""            \* process.env.X is undefined (or empty: both are falsy)
Missing == "<undefined>"   \* an argument key that the request body lacks
Null == "<null>"       \* JavaScript null
NoFile == "<no file>"  \* the path does not exist on disk
NoTools == <<>>

\* The environment variables that are set in some environment of the model.
EnvVarNames ==
    {"MCP_MOCK_MODE", "BRAVE_API_KEY", "GITHUB_PERSONAL_ACCESS_TOKEN",
     "CLOUD_MEMORY_URL", "CLOUD_MEMORY_API_KEY"}

EnvValues(v) == IF v = "MCP_MOCK_MODE" THEN {Unset, "true", "false"} ELSE {Unset, "k"}

Envs == {e \in [EnvVarNames -> {Unset, "true", "false", "k"}] :
            \A v \in EnvVarNames : e[v] \in EnvValues(v)}

\* process.env[name]
getenv(e, name) == IF name \in DOMAIN e THEN e[name] ELSE Unset

\* The server definitions of the configuration source: whether each has a
\* command and args, and its envVars as (configKey, envVarName) pairs.
\* filesystem, brave-search and github are as shipped (GITHUB_MCP_TOKEN is set
\* in no environment of the model); memory declares no variables here;
\* taskmaster-ai is an identity of the generic catalog; alpha has no launch
\* descriptor.
mcpServers ==
    [s \in {"filesystem", "brave-search", "github", "memory", "taskmaster-ai", "alpha"} |->
        CASE s = "filesystem" ->
                [command |-> TRUE, args |-> TRUE, envVars |-> {}]
          [] s = "brave-search" ->
                [command |-> TRUE, args |-> TRUE,
                 envVars |-> {<<"BRAVE_API_KEY", "BRAVE_API_KEY">>}]
          [] s = "github" ->
                [command |-> TRUE, args |-> TRUE,
                 envVars |-> {<<"GITHUB_PERSONAL_ACCESS_TOKEN", "GITHUB_MCP_TOKEN">>}]
          [] s = "memory" ->
                [command |-> TRUE, args |-> TRUE, envVars |-> {}]
          [] s = "taskmaster-ai" ->
                [command |-> TRUE, args |-> TRUE, envVars |-> {}]
          [] s = "alpha" ->
                [command |-> FALSE, args |-> FALSE, envVars |-> {}]]

ConfiguredNames == DOMAIN mcpServers

\* Server names a request can carry: the configured ones and an unconfigured one.
ServerNames == ConfiguredNames \cup {"ghost"}

ToolNames ==
    {"read_file", "write_file", "list_directory", "search", "web_search",
     "echo", "create_project", "bogus"}

-----------------------------------------------------------------------------
(* Connection manager *)

\* Variant of validateServerConfig that accepts every definition.
validateServerConfig_lenient(config) == TRUE

\* validateServerConfig: a definition needs a command or args.
validateServerConfig(config) ==
    IF ~config.command /\ ~config.args THEN FALSE ELSE TRUE

\* Variant of injectEnvironmentVariables that copies every declared pair,
\* the variable being set or not.
injectEnvironmentVariables_copiesAll(serverConfig, e) ==
    [command |-> serverConfig.command,
     args    |-> serverConfig.args,
     envVars |-> serverConfig.envVars,
     env     |-> {<<p[1], getenv(e, p[2])>> : p \in serverConfig.envVars}]

\* injectEnvironmentVariables: processedConfig.env holds, for each declared
\* (configKey, envVarName) pair whose variable is set, the value under configKey.
injectEnvironmentVariables(serverConfig, e) ==
    [command |-> serverConfig.command,
     args    |-> serverConfig.args,
     envVars |-> serverConfig.envVars,
     env     |-> {<<p[1], getenv(e, p[2])>> :
                    p \in {q \in serverConfig.envVars : getenv(e, q[2]) # Unset}}]

\* serverConfig.env?.KEY: the injected value, Unset when there is none.
injected(serverConfig, key) ==
    IF \E p \in serverConfig.env : p[1] = key
    THEN (CHOOSE p \in serverConfig.env : p[1] = key)[2]
    ELSE Unset

-----------------------------------------------------------------------------
(* Tool catalog *)

Thrown(message) == [thrown |-> message]
IsThrown(v) == "thrown" \in DOMAIN v

\* Variant of realToolDiscovery that lists the search tools without looking
\* at the injected key.
realToolDiscovery_ignoresKey(serverName, serverConfig) ==
    IF serverName = "brave-search"
    THEN [tools |-> <<"search", "web_search">>]
    ELSE IF serverName = "filesystem"
    THEN [tools |-> <<"read_file", "write_file", "list_directory">>]
    ELSE Thrown("Real tool discovery not yet implemented")

\* realToolDiscovery: the hardcoded real tool lists, or an exception.
realToolDiscovery(serverName, serverConfig) ==
    IF serverName = "brave-search" /\ injected(serverConfig, "BRAVE_API_KEY") # Unset
    THEN [tools |-> <<"search", "web_search">>]
    ELSE IF serverName = "filesystem"
    THEN [tools |-> <<"read_file", "write_file", "list_directory">>]
    ELSE Thrown("Real tool discovery not yet implemented")

\* getMockTools: the static generic catalog, echo for an unlisted identity.
getMockTools(serverName) ==
    CASE serverName = "filesystem" -> <<"read_file", "write_file", "list_directory">>
      [] serverName = "taskmaster-ai" -> <<"create_project", "add_task", "get_project_status">>
      [] serverName = "scout" -> <<"search_web", "research_topic", "summarize_content">>
      [] OTHER -> <<"echo">>

\* Variant of discoverTools without the generic tier: an identity with no
\* real list gets an empty catalog.
discoverTools_realOnly(serverName, serverConfig) ==
    LET realTools == realToolDiscovery(serverName, serverConfig) IN
    IF ~IsThrown(realTools) THEN realTools.tools ELSE NoTools

\* discoverTools: the real list when there is a non-empty one, else the generic one.
discoverTools(serverName, serverConfig) ==
    LET realTools == realToolDiscovery(serverName, serverConfig) IN
    IF ~IsThrown(realTools) /\ Len(realTools.tools) > 0
    THEN realTools.tools
    ELSE getMockTools(serverName)

-----------------------------------------------------------------------------
(* Simulation decision and annotation *)

\* requiresApiKeys: the credential-required identities.
requiresApiKeys(serverName) ==
    serverName \in {"brave-search", "github", "memory"}

\* Variant of hasRequiredApiKey that accepts either memory variable alone.
hasRequiredApiKey_either(serverName, e) ==
    CASE serverName = "brave-search" -> getenv(e, "BRAVE_API_KEY") # Unset
      [] serverName = "github" -> getenv(e, "GITHUB_PERSONAL_ACCESS_TOKEN") # Unset
      [] serverName = "memory" ->
            getenv(e, "CLOUD_MEMORY_URL") # Unset \/ getenv(e, "CLOUD_MEMORY_API_KEY") # Unset
      [] OTHER -> TRUE

\* hasRequiredApiKey: the credential of the identity is in the environment.
hasRequiredApiKey(serverName, e) ==
    CASE serverName = "brave-search" -> getenv(e, "BRAVE_API_KEY") # Unset
      [] serverName = "github" -> getenv(e, "GITHUB_PERSONAL_ACCESS_TOKEN") # Unset
      [] serverName = "memory" ->
            getenv(e, "CLOUD_MEMORY_URL") # Unset /\ getenv(e, "CLOUD_MEMORY_API_KEY") # Unset
      [] OTHER -> TRUE

\* getApiKeyGuidance: the setup text of the identity.
getApiKeyGuidance(serverName) ==
    CASE serverName = "brave-search" ->
            "Add BRAVE_API_KEY to .env file for real web search"
      [] serverName = "github" ->
            "Add GITHUB_PERSONAL_ACCESS_TOKEN to .env file for GitHub API access"
      [] serverName = "memory" ->
            "Add CLOUD_MEMORY_URL and CLOUD_MEMORY_API_KEY to .env file for persistent memory"
      [] OTHER -> "Check server configuration and API key requirements"

\* The record detectSimulationState returns.
simulationState(is_simulated, reason, guidance) ==
    [is_simulated  |-> is_simulated,
     reason        |-> reason,
     guidance      |-> guidance,
     confidence    |-> IF is_simulated THEN "mock_data" ELSE "real_data",
     server_status |-> IF is_simulated THEN "degraded" ELSE "operational"]

\* Variant of detectSimulationState that tests the credential before the switch.
detectSimulationState_keyFirst(serverName, toolName, e) ==
    IF requiresApiKeys(serverName) /\ ~hasRequiredApiKey(serverName, e)
    THEN simulationState(TRUE, "missing_api_key", getApiKeyGuidance(serverName))
    ELSE IF getenv(e, "MCP_MOCK_MODE") = "true"
    THEN simulationState(TRUE, "forced_mock_mode",
                         "Set MCP_MOCK_MODE=false to enable real execution")
    ELSE IF toolName = "echo"
    THEN simulationState(TRUE, "echo_tool_fallback",
            "This server has degraded to echo mode due to missing configuration")
    ELSE simulationState(FALSE, Null, Null)

\* Variant of detectSimulationState that exempts the filesystem identity
\* from the switch.
detectSimulationState_switchSparesFiles(serverName, toolName, e) ==
    IF getenv(e, "MCP_MOCK_MODE") = "true" /\ serverName # "filesystem"
    THEN simulationState(TRUE, "forced_mock_mode",
                         "Set MCP_MOCK_MODE=false to enable real execution")
    ELSE IF requiresApiKeys(serverName) /\ ~hasRequiredApiKey(serverName, e)
    THEN simulationState(TRUE, "missing_api_key", getApiKeyGuidance(serverName))
    ELSE IF toolName = "echo"
    THEN simulationState(TRUE, "echo_tool_fallback",
            "This server has degraded to echo mode due to missing configuration")
    ELSE simulationState(FALSE, Null, Null)

\* Variant of detectSimulationState without the echo rule.
detectSimulationState_noEcho(serverName, toolName, e) ==
    IF getenv(e, "MCP_MOCK_MODE") = "true"
    THEN simulationState(TRUE, "forced_mock_mode",
                         "Set MCP_MOCK_MODE=false to enable real execution")
    ELSE IF requiresApiKeys(serverName) /\ ~hasRequiredApiKey(serverName, e)
    THEN simulationState(TRUE, "missing_api_key", getApiKeyGuidance(serverName))
    ELSE simulationState(FALSE, Null, Null)

\* detectSimulationState: forced mock mode, then a missing credential, then
\* the echo tool; real otherwise.
detectSimulationState(serverName, toolName, e) ==
    LET hasKey           == hasRequiredApiKey(serverName, e)
        isMockModeForced == getenv(e, "MCP_MOCK_MODE") = "true"
        requiresApiKey   == requiresApiKeys(serverName)
        isEchoTool       == toolName = "echo"
    IN  IF isMockModeForced
        THEN simulationState(TRUE, "forced_mock_mode",
                             "Set MCP_MOCK_MODE=false to enable real execution")
        ELSE IF requiresApiKey /\ ~hasKey
        THEN simulationState(TRUE, "missing_api_key", getApiKeyGuidance(serverName))
        ELSE IF isEchoTool
        THEN simulationState(TRUE, "echo_tool_fallback",
                "This server has degraded to echo mode due to missing configuration")
        ELSE simulationState(FALSE, Null, Null)

\* A copy of the object r with the key k set to v.
withKey(r, k, v) == [x \in DOMAIN r \cup {k} |-> IF x = k THEN v ELSE r[x]]

\* Variant of addWhiteRabbitMetadata that annotates simulated results only.
addWhiteRabbitMetadata_simulatedOnly(result, state) ==
    IF state.is_simulated
    THEN withKey(result, "white_rabbit",
                 [is_simulated  |-> state.is_simulated,
                  reason        |-> state.reason,
                  confidence    |-> state.confidence,
                  server_status |-> state.server_status,
                  warning       |-> "SIMULATED RESULT - This is mock data, not real output",
                  guidance      |-> state.guidance])
    ELSE result

\* Variant of addWhiteRabbitMetadata that attaches the warning and the
\* guidance to every result.
addWhiteRabbitMetadata_alwaysWarns(result, state) ==
    withKey(result, "white_rabbit",
            [is_simulated  |-> state.is_simulated,
             reason        |-> state.reason,
             confidence    |-> state.confidence,
             server_status |-> state.server_status,
             warning       |-> "SIMULATED RESULT - This is mock data, not real output",
             guidance      |-> state.guidance])

\* addWhiteRabbitMetadata: the result with its white_rabbit annotation.
addWhiteRabbitMetadata(result, state) ==
    LET base == [is_simulated  |-> state.is_simulated,
                 reason        |-> state.reason,
                 confidence    |-> state.confidence,
                 server_status |-> state.server_status]
        annotation ==
            IF state.is_simulated
            THEN withKey(withKey(base, "warning", "SIMULATED RESULT - This is mock data, not real output"),
                         "guidance", state.guidance)
            ELSE base
    IN  withKey(result, "white_rabbit", annotation)

-----------------------------------------------------------------------------
(* Execution strategies *)

\* mockToolExecution: the synthetic payload, echoing server, tool and args.
mockToolExecution(serverName, toolName, args) ==
    [success |-> TRUE,
     server  |-> serverName,
     tool    |-> toolName,
     args    |-> args,
     result  |-> [mock |-> <<serverName, toolName>>]]

\* The paths of the modelled disk.  "." holds the directory sub, the file
\* locked.txt that the process may neither read nor write, and the first
\* MaxFiles files of Files when they exist.
Files ==
    <<[path |-> "./t.txt", name |-> "t.txt"],
      [path |-> "./u.txt", name |-> "u.txt"],
      [path |-> "./v.txt", name |-> "v.txt"]>>
MaxFiles == 1
MutablePaths == {Files[i].path : i \in 1..MaxFiles}
Contents == {"", "hello"}

\* The name of the directory entry of a mutable path.
entryName(p) == Files[CHOOSE i \in 1..MaxFiles : Files[i].path = p].name

\* fs.readFileSync(p, 'utf8')
readFileSync(disk, p) ==
    CASE p \in MutablePaths ->
            IF disk[p] = NoFile
            THEN Thrown("ENOENT: no such file or directory")
            ELSE [value |-> disk[p]]
      [] p \in {".", "./sub"} -> Thrown("EISDIR: illegal operation on a directory")
      [] p = "./locked.txt" -> Thrown("EACCES: permission denied")
      [] OTHER -> Thrown("ENOENT: no such file or directory")

\* Variant of fs.writeFileSync that leaves an existing file as it is and
\* still returns normally.
writeFileSync_keepsExisting(disk, p, c) ==
    CASE p \in MutablePaths ->
            [disk |-> IF disk[p] = NoFile THEN [disk EXCEPT ![p] = c] ELSE disk]
      [] p \in {".", "./sub"} -> Thrown("EISDIR: illegal operation on a directory")
      [] p = "./locked.txt" -> Thrown("EACCES: permission denied")
      [] OTHER -> Thrown("ENOENT: no such file or directory")

\* fs.writeFileSync(p, c, 'utf8'): the disk afterwards, or an exception.
writeFileSync(disk, p, c) ==
    CASE p \in MutablePaths -> [disk |-> [disk EXCEPT ![p] = c]]
      [] p \in {".", "./sub"} -> Thrown("EISDIR: illegal operation on a directory")
      [] p = "./locked.txt" -> Thrown("EACCES: permission denied")
      [] OTHER -> Thrown("ENOENT: no such file or directory")

\* Variant of fs.readdirSync with the entry types the wrong way round for
\* the files written through the client (isDirectory() negated).
readdirSync_typesSwapped(disk, p) ==
    CASE p = "." ->
            [value |-> {[name |-> entryName(q), type |-> "directory"] :
                            q \in {m \in MutablePaths : disk[m] # NoFile}}
                       \cup {[name |-> "locked.txt", type |-> "file"],
                             [name |-> "sub", type |-> "directory"]}]
      [] p = "./sub" -> [value |-> {}]
      [] OTHER -> Thrown("ENOTDIR: not a directory")

\* fs.readdirSync(p, {withFileTypes: true}) mapped to {name, type}: the
\* entries as a set (the order of a directory listing is the system's).
readdirSync(disk, p) ==
    CASE p = "." ->
            [value |-> {[name |-> entryName(q), type |-> "file"] :
                            q \in {m \in MutablePaths : disk[m] # NoFile}}
                       \cup {[name |-> "locked.txt", type |-> "file"],
                             [name |-> "sub", type |-> "directory"]}]
      [] p = "./sub" -> [value |-> {}]
      [] p \in MutablePaths ->
            IF disk[p] = NoFile
            THEN Thrown("ENOENT: no such file or directory")
            ELSE Thrown("ENOTDIR: not a directory")
      [] p = "./locked.txt" -> Thrown("ENOTDIR: not a directory")
      [] OTHER -> Thrown("ENOENT: no such file or directory")

\* !args.path and the like: the key is absent or the empty string.
falsy(v) == v = Missing \/ v = ""

failure(serverName, toolName, args, message) ==
    [success |-> FALSE,
     server  |-> serverName,
     tool    |-> toolName,
     args    |-> args,
     error   |-> message]

success(serverName, toolName, args, payload) ==
    [success |-> TRUE,
     server  |-> serverName,
     tool    |-> toolName,
     args    |-> args,
     result  |-> payload]

\* Variant of the try block in which read_file opens the file for update:
\* reading a path that does not exist creates it empty.
filesystemTry_readCreates(disk, toolName, args) ==
    CASE toolName = "read_file" ->
            IF falsy(args.path)
            THEN [thrown |-> "path argument is required for read_file", disk |-> disk]
            ELSE IF args.path \in MutablePaths /\ disk[args.path] = NoFile
            THEN [result |-> success("filesystem", "read_file", args, [content |-> ""]),
                  disk |-> [disk EXCEPT ![args.path] = ""]]
            ELSE LET r == readFileSync(disk, args.path) IN
                 IF IsThrown(r)
                 THEN [thrown |-> r.thrown, disk |-> disk]
                 ELSE [result |-> success("filesystem", "read_file", args, [content |-> r.value]),
                       disk |-> disk]
      [] toolName = "write_file" ->
            IF falsy(args.path) \/ args.content = Missing
            THEN [thrown |-> "path and content arguments are required for write_file",
                  disk |-> disk]
            ELSE LET w == writeFileSync(disk, args.path, args.content) IN
                 IF IsThrown(w)
                 THEN [thrown |-> w.thrown, disk |-> disk]
                 ELSE [result |-> success("filesystem", "write_file", args,
                                          [message |-> "File written successfully"]),
                       disk |-> w.disk]
      [] toolName = "list_directory" ->
            IF falsy(args.path)
            THEN [thrown |-> "path argument is required for list_directory", disk |-> disk]
            ELSE LET d == readdirSync(disk, args.path) IN
                 IF IsThrown(d)
                 THEN [thrown |-> d.thrown, disk |-> disk]
                 ELSE [result |-> success("filesystem", "list_directory", args,
                                          [entries |-> d.value]),
                       disk |-> disk]
      [] OTHER -> [thrown |-> "Unknown filesystem tool", disk |-> disk]

\* The body of the try block of executeFilesystemTool: [result, disk], or
\* [thrown, disk] when a statement throws.
filesystemTry(disk, toolName, args) ==
    CASE toolName = "read_file" ->
            IF falsy(args.path)
            THEN [thrown |-> "path argument is required for read_file", disk |-> disk]
            ELSE LET r == readFileSync(disk, args.path) IN
                 IF IsThrown(r)
                 THEN [thrown |-> r.thrown, disk |-> disk]
                 ELSE [result |-> success("filesystem", "read_file", args, [content |-> r.value]),
                       disk |-> disk]
      [] toolName = "write_file" ->
            IF falsy(args.path) \/ args.content = Missing
            THEN [thrown |-> "path and content arguments are required for write_file",
                  disk |-> disk]
            ELSE LET w == writeFileSync(disk, args.path, args.content) IN
                 IF IsThrown(w)
                 THEN [thrown |-> w.thrown, disk |-> disk]
                 ELSE [result |-> success("filesystem", "write_file", args,
                                          [message |-> "File written successfully"]),
                       disk |-> w.disk]
      [] toolName = "list_directory" ->
            IF falsy(args.path)
            THEN [thrown |-> "path argument is required for list_directory", disk |-> disk]
            ELSE LET d == readdirSync(disk, args.path) IN
                 IF IsThrown(d)
                 THEN [thrown |-> d.thrown, disk |-> disk]
                 ELSE [result |-> success("filesystem", "list_directory", args,
                                          [entries |-> d.value]),
                       disk |-> disk]
      [] OTHER -> [thrown |-> "Unknown filesystem tool", disk |-> disk]

\* Variant of executeFilesystemTool without the catch clause.
executeFilesystemTool_noCatch(disk, toolName, args) ==
    filesystemTry(disk, toolName, args)

\* executeFilesystemTool: the try block, with every exception caught and
\* returned as a failure result.
executeFilesystemTool(disk, toolName, args) ==
    LET t == filesystemTry(disk, toolName, args) IN
    IF IsThrown(t)
    THEN [result |-> failure("filesystem", toolName, args, t.thrown), disk |-> t.disk]
    ELSE t

\* What the search provider answers to the HTTP call of the web-search
\* strategy; NoProvider for a call that cannot reach it.
NoProvider == "none"
ProviderOutcomes == {"ok", "http_error", "network_error"}

\* The body of the try block of executeBraveSearchTool.
braveSearchTry(toolName, args, provider) ==
    IF toolName \in {"search", "web_search"}
    THEN IF falsy(args.query)
         THEN Thrown("query argument is required for search")
         ELSE CASE provider = "ok" ->
                      [result |-> success("brave-search", toolName, args,
                                          [query |-> args.query, web |-> "provider results"])]
                [] provider = "http_error" -> Thrown("provider: invalid or rate limited token")
                [] OTHER -> Thrown("network error")
    ELSE Thrown("Unknown brave-search tool")

\* executeBraveSearchTool: a failure when the key is not configured; else the
\* try block, with every exception caught and returned as a failure result.
executeBraveSearchTool(e, toolName, args, provider) ==
    IF getenv(e, "BRAVE_API_KEY") = Unset
    THEN [result |-> failure("brave-search", toolName, args, "BRAVE_API_KEY not configured")]
    ELSE LET t == braveSearchTry(toolName, args, provider) IN
         IF IsThrown(t)
         THEN [result |-> failure("brave-search", toolName, args, t.thrown)]
         ELSE t

\* Variant of realToolExecution that hands every other identity to the
\* filesystem strategy.
realToolExecution_noFallback(disk, e, serverName, toolName, args, provider) ==
    IF serverName = "brave-search"
    THEN LET r == executeBraveSearchTool(e, toolName, args, provider) IN
         withKey(withKey(r, "disk", disk), "via", "brave-search")
    ELSE LET r == executeFilesystemTool(disk, toolName, args) IN
         withKey(r, "via", "filesystem")

\* Variant of realToolExecution whose only real strategy is the filesystem
\* one: the web-search identity is served the mock payload.
realToolExecution_filesystemOnly(disk, e, serverName, toolName, args, provider) ==
    IF serverName = "filesystem"
    THEN LET r == executeFilesystemTool(disk, toolName, args) IN
         withKey(r, "via", "filesystem")
    ELSE [result |-> mockToolExecution(serverName, toolName, args),
          disk |-> disk, via |-> "mock"]

\* realToolExecution: the strategy of the identity, the mock path when it has
\* none.  `via` records which function produced the result.
realToolExecution(disk, e, serverName, toolName, args, provider) ==
    IF serverName = "filesystem"
    THEN LET r == executeFilesystemTool(disk, toolName, args) IN
         withKey(r, "via", "filesystem")
    ELSE IF serverName = "brave-search"
    THEN LET r == executeBraveSearchTool(e, toolName, args, provider) IN
         withKey(withKey(r, "disk", disk), "via", "brave-search")
    ELSE [result |-> mockToolExecution(serverName, toolName, args),
          disk |-> disk, via |-> "mock"]

-----------------------------------------------------------------------------
(* Execution router *)

\* No call of executeTool was made.
NoCall == [kind |-> "none"]

\* An exception of executeTool, with what its message names.
raised(type, serverName, toolName) ==
    [kind |-> "error", type |-> type, server |-> serverName,
     tool |-> IF type \in {"NotFound", "NotReady"} THEN Null ELSE toolName]

\* A result of executeTool(serverName, toolName, ...), with the decision
\* taken for the call, the function that produced the result and, for the
\* web-search strategy, what the provider had to answer.
returned(serverName, toolName, result, state, via, provider) ==
    [kind |-> "result", result |-> result, server |-> serverName,
     tool |-> toolName, decision |-> state, via |-> via,
     provider |-> IF via = "brave-search" THEN provider ELSE NoProvider]

\* Variant of dispatch in which a simulated call still runs the strategy of
\* the identity for its effects and returns the mock payload.
dispatch_writesThrough(disk, e, serverName, toolName, args, provider) ==
    LET state == detectSimulationState(serverName, toolName, e)
        real == realToolExecution(disk, e, serverName, toolName, args, provider)
        r == IF state.is_simulated
             THEN [result |-> mockToolExecution(serverName, toolName, args),
                   disk |-> real.disk, via |-> "mock"]
             ELSE real
    IN  [resp |-> returned(serverName, toolName,
                           addWhiteRabbitMetadata(r.result, state), state, r.via,
                           provider),
         disk |-> r.disk]

\* The try block of executeTool: decision, dispatch, annotation.
dispatch(disk, e, serverName, toolName, args, provider) ==
    LET state == detectSimulationState(serverName, toolName, e)
        r == IF state.is_simulated
             THEN [result |-> mockToolExecution(serverName, toolName, args),
                   disk |-> disk, via |-> "mock"]
             ELSE realToolExecution(disk, e, serverName, toolName, args, provider)
    IN  IF IsThrown(r)
        THEN [resp |-> raised("ExecutionError", serverName, toolName), disk |-> r.disk]
        ELSE [resp |-> returned(serverName, toolName,
                                addWhiteRabbitMetadata(r.result, state), state, r.via,
                                provider),
              disk |-> r.disk]

\* server.tools.find(t => t.name === toolName)
hasTool(tools, toolName) == \E i \in 1..Len(tools) : tools[i] = toolName

\* Variant of executeOnServer that skips the catalog check and dispatches
\* whatever tool name the caller gave.
executeOnServer_noCatalogCheck(server, disk, e, serverName, toolName, args, provider) ==
    IF server.status # "ready"
    THEN [resp |-> raised("NotReady", serverName, toolName), disk |-> disk]
    ELSE dispatch(disk, e, serverName, toolName, args, provider)

\* executeTool once the server was found: the readiness and catalog checks,
\* then the try block.
executeOnServer(server, disk, e, serverName, toolName, args, provider) ==
    IF server.status # "ready"
    THEN [resp |-> raised("NotReady", serverName, toolName), disk |-> disk]
    ELSE IF ~hasTool(server.tools, toolName)
    THEN [resp |-> raised("ToolNotFound", serverName, toolName), disk |-> disk]
    ELSE dispatch(disk, e, serverName, toolName, args, provider)

\* Variant of executeTool that serves an unknown server name from the
\* simulated path instead of rejecting it.
executeTool_simulateUnknown(srv, disk, e, serverName, toolName, args, provider) ==
    IF serverName \notin DOMAIN srv
    THEN dispatch(disk, e, serverName, toolName, args, provider)
    ELSE executeOnServer(srv[serverName], disk, e, serverName, toolName, args, provider)

\* executeTool: the server lookup, then the rest.
executeTool(srv, disk, e, serverName, toolName, args, provider) ==
    IF serverName \notin DOMAIN srv
    THEN [resp |-> raised("NotFound", serverName, toolName), disk |-> disk]
    ELSE executeOnServer(srv[serverName], disk, e, serverName, toolName, args, provider)

-----------------------------------------------------------------------------
(* Queries *)

\* getAvailableTools: status and catalog of every server of the map.
getAvailableTools(srv) ==
    [s \in DOMAIN srv |-> [status |-> srv[s].status, tools |-> srv[s].tools]]

\* getServerStatus: status, catalog size and retry counter of every server
\* of the map.
getServerStatus(srv) ==
    [s \in DOMAIN srv |->
        [status |-> srv[s].status,
         toolCount |-> Len(srv[s].tools),
         retryCount |-> srv[s].retryCount]]

\* healthCheck: 'healthy' when at least one server is ready.
healthCheck(srv) ==
    LET status == getServerStatus(srv)
        totalServers == Cardinality(DOMAIN status)
        readyServers == Cardinality({s \in DOMAIN status : status[s].status = "ready"})
    IN  [status |-> IF readyServers > 0 THEN "healthy" ELSE "degraded",
         totalServers |-> totalServers,
         readyServers |-> readyServers,
         servers |-> status]

-----------------------------------------------------------------------------
(* HTTP layer *)

\* The transparency headers the execute endpoint can set.
simulationHeaders(funkbot) ==
    [mode |-> "simulation", warning |-> "mock-data",
     serverStatus |-> IF funkbot.server_status \in {Missing, Null, ""}
                      THEN "degraded" ELSE funkbot.server_status]

NoHeaders == [x \in {} |-> Null]

\* Variant of the execute endpoint that reports a result with success =
\* false as a server error.
executeEndpoint_failureIs500(out) ==
    IF out.kind = "result"
    THEN [code |-> IF out.result.success THEN 200 ELSE 500,
          headers |-> NoHeaders,
          body |-> [status |-> IF out.result.success THEN "success" ELSE "error",
                    result |-> out.result, server |-> out.server, tool |-> out.tool,
                    executedVia |-> "mcp"]]
    ELSE [code |-> 404,
          headers |-> NoHeaders,
          body |-> [error |-> "Execution failed", message |-> out.type,
                    server |-> out.server, tool |-> out.tool,
                    suggestion |-> "Check available servers/tools with GET /tools"]]

\* app.post('/execute/:server/:tool') for the outcome `out` of its call of
\* executeTool: the body with the result, and the transparency headers when
\* result.funkbot says the result is simulated; 404 when executeTool threw.
executeEndpoint(out) ==
    IF out.kind = "result"
    THEN LET result == out.result
             response == [status |-> "success", result |-> result,
                          server |-> out.server, tool |-> out.tool,
                          executedVia |-> "mcp"]
         IN  IF "funkbot" \in DOMAIN result
             THEN [code |-> 200,
                   headers |-> IF result.funkbot.is_simulated
                               THEN simulationHeaders(result.funkbot)
                               ELSE NoHeaders,
                   body |-> withKey(response, "funkbot", result.funkbot)]
             ELSE [code |-> 200, headers |-> NoHeaders, body |-> response]
    ELSE [code |-> 404,
          headers |-> NoHeaders,
          body |-> [error |-> "Execution failed", message |-> out.type,
                    server |-> out.server, tool |-> out.tool,
                    suggestion |-> "Check available servers/tools with GET /tools"]]

-----------------------------------------------------------------------------
(* Requests *)

mkArgs(path, content, query) == [path |-> path, content |-> content, query |-> query]

PathArgs == {Missing, ".", "./locked.txt"} \cup MutablePaths

\* The argument maps tried with a tool of a server: every path and content
\* on the filesystem identity, with and without a query on the web-search
\* identity, and one argument map elsewhere (no other identity reads them).
ArgsFor(serverName, toolName) ==
    CASE serverName = "filesystem" /\ toolName \in {"read_file", "list_directory"} ->
            {mkArgs(p, Missing, Missing) : p \in PathArgs}
      [] serverName = "filesystem" /\ toolName = "write_file" ->
            {mkArgs(p, c, Missing) : p \in PathArgs \ {Missing}, c \in Contents}
            \cup {mkArgs(Missing, "hello", Missing), mkArgs("./t.txt", Missing, Missing)}
      [] serverName = "brave-search" /\ toolName \in {"search", "web_search"} ->
            {mkArgs(Missing, Missing, q) : q \in {Missing, "x"}}
      [] toolName \in {"read_file", "write_file", "list_directory"} ->
            {mkArgs("./t.txt", "hello", Missing)}
      [] toolName \in {"search", "web_search"} ->
            {mkArgs(Missing, Missing, "x")}
      [] OTHER -> {mkArgs(Missing, Missing, Missing)}

\* The provider answers a call can meet.
ProvidersFor(serverName, toolName) ==
    IF serverName = "brave-search" /\ toolName \in {"search", "web_search"}
    THEN ProviderOutcomes
    ELSE {NoProvider}

-----------------------------------------------------------------------------
(* State machine *)

ConfigFiles == {"absent", "malformed", "nosection", "present"}

EmptyMap == [x \in {} |-> Null]

\* The serverInfo object connectToServer starts from.
newServerInfo(serverName, serverConfig) ==
    [name |-> serverName, config |-> serverConfig, status |-> "connecting",
     tools |-> NoTools, process |-> Null, retryCount |-> 0]

\* Phases in which the event loop is free to serve a request or a signal: the
\* startup sweep runs from init() to its end without yielding to the loop.
Serving == phase \in {"new", "running", "failed", "stopped"}

\* No write_file call has succeeded yet; no listing is remembered.
NoWrite == [path |-> Missing]
NoListing == [path |-> Missing]

\* What every behaviour starts from, the environment and the source apart.
Fresh ==
    /\ phase = "new"
    /\ servers = EmptyMap
    /\ tasks = [s \in ConfiguredNames |-> [pc |-> "idle"]]
    /\ fs = [p \in MutablePaths |-> NoFile]
    /\ resp = NoCall
    /\ lastWrite = NoWrite
    /\ listed = NoListing

Init ==
    /\ Fresh
    /\ configFile \in ConfigFiles
    /\ env \in Envs
    /\ defs = mcpServers

\* Variant of LoadConfig in which a missing configuration file is an error
\* like a malformed one.
LoadConfig_missingFails ==
    /\ phase = "new"
    /\ phase' = CASE configFile \in {"malformed", "absent"} -> "failed"
                  [] configFile = "present" -> "sweeping"
                  [] OTHER -> "running"
    /\ resp' = NoCall
    /\ UNCHANGED <<configFile, env, servers, tasks, fs, defs, lastWrite, listed>>

\* init() up to the connection loop: loadConfig reads the source once.
LoadConfig ==
    /\ phase = "new"
    /\ phase' = CASE configFile = "malformed" -> "failed"
                  [] configFile = "present" -> "sweeping"
                  [] OTHER -> "running"
    /\ resp' = NoCall
    /\ UNCHANGED <<configFile, env, servers, tasks, fs, defs, lastWrite, listed>>

\* Variant of ConnectStart that stores the entry in the map before
\* discovery has produced its catalog.
ConnectStart_publishesEarly(s) ==
    /\ phase = "sweeping"
    /\ tasks[s].pc = "idle"
    /\ IF validateServerConfig(defs[s])
       THEN LET processedConfig == injectEnvironmentVariables(defs[s], env)
                info == [newServerInfo(s, defs[s]) EXCEPT !.config = processedConfig,
                                                          !.status = "ready"]
            IN  /\ tasks' = [tasks EXCEPT ![s] =
                               [pc |-> "discovering", info |-> info,
                                found |-> discoverTools(s, processedConfig)]]
                /\ servers' = withKey(servers, s, info)
       ELSE /\ tasks' = [tasks EXCEPT ![s] = [pc |-> "rejected"]]
            /\ servers' = servers
    /\ UNCHANGED <<phase, configFile, env, fs, resp, defs, lastWrite, listed>>

\* Variant of ConnectStart in which a rejected connection fails the whole
\* sweep (the promises joined fail-fast instead of settled).
ConnectStart_failFast(s) ==
    /\ phase = "sweeping"
    /\ tasks[s].pc = "idle"
    /\ IF validateServerConfig(defs[s])
       THEN /\ tasks' = [tasks EXCEPT ![s] =
                            [pc |-> "discovering",
                             info |-> [newServerInfo(s, defs[s]) EXCEPT
                                          !.config = injectEnvironmentVariables(defs[s], env),
                                          !.status = "ready"],
                             found |-> discoverTools(s, injectEnvironmentVariables(defs[s], env))]]
            /\ phase' = phase
       ELSE /\ tasks' = [tasks EXCEPT ![s] = [pc |-> "rejected"]]
            /\ phase' = "failed"
    /\ UNCHANGED <<configFile, env, servers, fs, resp, defs, lastWrite, listed>>

\* connectToServer up to its await: validation, injection, discovery.
ConnectStart(s) ==
    /\ phase = "sweeping"
    /\ tasks[s].pc = "idle"
    /\ LET serverInfo == newServerInfo(s, defs[s]) IN
       IF validateServerConfig(defs[s])
       THEN LET processedConfig == injectEnvironmentVariables(defs[s], env) IN
            tasks' = [tasks EXCEPT ![s] =
                        [pc |-> "discovering",
                         info |-> [serverInfo EXCEPT !.config = processedConfig,
                                                     !.status = "ready"],
                         found |-> discoverTools(s, processedConfig)]]
       ELSE tasks' = [tasks EXCEPT ![s] = [pc |-> "rejected"]]
    /\ UNCHANGED <<phase, configFile, env, servers, fs, resp, defs, lastWrite, listed>>

\* connectToServer after its await: the tools are stored, the entry published.
ConnectPublish(s) ==
    /\ phase = "sweeping"
    /\ tasks[s].pc = "discovering"
    /\ servers' = withKey(servers, s, [tasks[s].info EXCEPT !.tools = tasks[s].found])
    /\ tasks' = [tasks EXCEPT ![s] = [pc |-> "connected"]]
    /\ UNCHANGED <<phase, configFile, env, fs, resp, defs, lastWrite, listed>>

\* Variant of SweepDone that queues the rejected connections for another
\* attempt.
SweepDone_retry ==
    /\ phase = "sweeping"
    /\ \A s \in ConfiguredNames : tasks[s].pc \in {"connected", "rejected"}
    /\ phase' = "running"
    /\ tasks' = [s \in ConfiguredNames |->
                    IF tasks[s].pc = "rejected" THEN [pc |-> "idle"] ELSE tasks[s]]
    /\ UNCHANGED <<configFile, env, servers, fs, resp, defs, lastWrite, listed>>

\* Promise.allSettled resolves: connectToServers and init() return.
SweepDone ==
    /\ phase = "sweeping"
    /\ \A s \in ConfiguredNames : tasks[s].pc \in {"connected", "rejected"}
    /\ phase' = "running"
    /\ UNCHANGED <<configFile, env, servers, tasks, fs, resp, defs, lastWrite, listed>>

\* Variant of Execute that counts a failed call against the server: the
\* retry counter of the entry becomes 1.
Execute_countsFailures(s, t, a, p) ==
    /\ Serving
    /\ LET out == executeTool(servers, fs, env, s, t, a, p) IN
       /\ resp' = out.resp
       /\ fs' = out.disk
       /\ servers' = IF out.resp.kind = "result" /\ ~out.resp.result.success
                     THEN [servers EXCEPT ![s].retryCount = 1]
                     ELSE servers
    /\ UNCHANGED <<phase, configFile, env, tasks, defs, lastWrite, listed>>

\* One call of executeTool(serverName, toolName, args).
Execute(s, t, a, p) ==
    /\ Serving
    /\ LET out == executeTool(servers, fs, env, s, t, a, p) IN
       /\ resp' = out.resp
       /\ fs' = out.disk
    /\ UNCHANGED <<phase, configFile, env, servers, tasks, defs, lastWrite, listed>>

\* Variant of SetEnv after which every catalog is discovered again from the
\* new environment.
SetEnv_rediscovers(v, x) ==
    /\ Serving
    /\ env[v] # x
    /\ env' = [env EXCEPT ![v] = x]
    /\ resp' = NoCall
    /\ servers' = [s \in DOMAIN servers |->
                      [servers[s] EXCEPT
                          !.tools = discoverTools(s, injectEnvironmentVariables(defs[s], env'))]]
    /\ UNCHANGED <<phase, configFile, tasks, fs, defs, lastWrite, listed>>

\* The environment changes between two requests.
SetEnv(v, x) ==
    /\ Serving
    /\ env[v] # x
    /\ env' = [env EXCEPT ![v] = x]
    /\ resp' = NoCall
    /\ UNCHANGED <<phase, configFile, servers, tasks, fs, defs, lastWrite, listed>>

\* Variant of Shutdown that drops only the entries that own a process.
Shutdown_killsOnly ==
    /\ phase \in {"running", "failed"}
    /\ servers' = [s \in {x \in DOMAIN servers : servers[x].process = Null} |-> servers[s]]
    /\ phase' = "stopped"
    /\ resp' = NoCall
    /\ UNCHANGED <<configFile, env, tasks, fs, defs, lastWrite, listed>>

\* shutdown(): no process handle is ever set, the map is cleared.
Shutdown ==
    /\ phase \in {"running", "failed"}
    /\ servers' = EmptyMap
    /\ phase' = "stopped"
    /\ resp' = NoCall
    /\ UNCHANGED <<configFile, env, tasks, fs, defs, lastWrite, listed>>

Next ==
    \/ LoadConfig
    \/ \E s \in ConfiguredNames : ConnectStart(s)
    \/ \E s \in ConfiguredNames : ConnectPublish(s)
    \/ SweepDone
    \/ \E s \in ServerNames, t \in ToolNames :
          \E a \in ArgsFor(s, t), p \in ProvidersFor(s, t) : Execute(s, t, a, p)
    \/ \E v \in EnvVarNames : \E x \in EnvValues(v) : SetEnv(v, x)
    \/ Shutdown

Spec == Init /\ [][Next]_vars

-----------------------------------------------------------------------------
(* Claims about the execution router *)

\* resp is a result returned by executeTool.
Returned == resp.kind = "result"

\* The annotation of the returned result.
Annotation == resp.result.white_rabbit

\* The force-simulation switch is on in the environment of the call (a step
\* that changes the environment clears resp, so env is that environment).
SwitchOn == env["MCP_MOCK_MODE"] = "true"

\* The credential of a credential-required identity is absent.
CredentialMissing(s) ==
    \/ s = "brave-search" /\ env["BRAVE_API_KEY"] = Unset
    \/ s = "github" /\ env["GITHUB_PERSONAL_ACCESS_TOKEN"] = Unset
    \/ s = "memory" /\ (env["CLOUD_MEMORY_URL"] = Unset \/ env["CLOUD_MEMORY_API_KEY"] = Unset)

\* The payload of the returned result is the synthetic mock payload.
MockPayload == "result" \in DOMAIN resp.result /\ "mock" \in DOMAIN resp.result.result

\* C1: every returned result whose payload was produced by the simulated
\* path (mockToolExecution) is annotated is_simulated = TRUE, also when the
\* decision was real and the router fell back to the simulated path.
C1_SimulationFlagged ==
    Returned /\ resp.via = "mock" => Annotation.is_simulated


\* C2: every returned result carries exactly one annotation with the four
\* fields is_simulated, reason, confidence and server_status, and it is the
\* decision computed for that call, whichever path produced the result.
C2_OneAnnotation ==
    Returned =>
        /\ "white_rabbit" \in DOMAIN resp.result
        /\ {"is_simulated", "reason", "confidence", "server_status"} \subseteq DOMAIN Annotation
        /\ Annotation.is_simulated = resp.decision.is_simulated
        /\ Annotation.reason = resp.decision.reason
        /\ Annotation.reason \in {Null, "forced_mock_mode", "missing_api_key", "echo_tool_fallback"}
        /\ Annotation.confidence \in {"real_data", "mock_data"}
        /\ Annotation.server_status \in {"operational", "degraded"}

\* A real strategy failed and its failure result is annotated.
C2_Witness ==
    /\ Returned
    /\ resp.via = "filesystem"
    /\ ~resp.result.success
    /\ "white_rabbit" \in DOMAIN resp.result
    /\ ~Annotation.is_simulated

\* C3: the decision is the first match of: switch on -> simulated, forced
\* mock mode; credential-required identity without its credential ->
\* simulated, missing credential, with the guidance of that identity; echo
\* tool -> simulated, echo fallback; otherwise real.
C3_DecisionOrder ==
    Returned =>
        LET s == resp.server
            d == resp.decision
        IN  IF SwitchOn
            THEN d.is_simulated /\ d.reason = "forced_mock_mode"
            ELSE IF CredentialMissing(s)
            THEN /\ d.is_simulated
                 /\ d.reason = "missing_api_key"
                 /\ d.guidance \notin {Null, ""}
                 /\ \A o \in {"brave-search", "github", "memory"} \ {s} :
                        d.guidance # getApiKeyGuidance(o)
            ELSE IF resp.tool = "echo"
            THEN d.is_simulated /\ d.reason = "echo_tool_fallback"
            ELSE ~d.is_simulated /\ d.reason = Null

\* The switch is on, the credential is missing, and the reason is the switch.
C3_Witness ==
    /\ Returned
    /\ SwitchOn
    /\ CredentialMissing(resp.server)
    /\ resp.tool = "echo"
    /\ Annotation.reason = "forced_mock_mode"

\* C4: with the force-simulation switch on, every returned result is
\* annotated is_simulated = TRUE, whatever the server and the tool.
C4_SwitchForcesSimulation ==
    Returned /\ SwitchOn => Annotation.is_simulated

\* A filesystem write under the switch is answered by the simulated path.
C4_Witness ==
    /\ Returned
    /\ SwitchOn
    /\ resp.server = "filesystem"
    /\ resp.tool = "write_file"
    /\ Annotation.is_simulated

\* C5 as stated: a call to a credential-required identity whose credential
\* is missing returns is_simulated = TRUE, reason missing credential and a
\* non-empty guidance.
C5_MissingCredentialReason ==
    Returned /\ CredentialMissing(resp.server) =>
        /\ Annotation.is_simulated
        /\ Annotation.reason = "missing_api_key"
        /\ "guidance" \in DOMAIN Annotation
        /\ Annotation.guidance \notin {Null, ""}

\* C5 amended: such a call returns is_simulated = TRUE and a non-empty
\* guidance; its reason is missing credential when the switch is off and
\* forced mock mode when the switch is on.
C5_MissingCredentialSimulated ==
    Returned /\ CredentialMissing(resp.server) =>
        /\ Annotation.is_simulated
        /\ "guidance" \in DOMAIN Annotation
        /\ Annotation.guidance \notin {Null, ""}
        /\ Annotation.reason = IF SwitchOn THEN "forced_mock_mode" ELSE "missing_api_key"

\* memory with one of its two variables set is answered as missing credential.
C5_Witness ==
    /\ Returned
    /\ resp.server = "memory"
    /\ env["CLOUD_MEMORY_URL"] # Unset
    /\ env["CLOUD_MEMORY_API_KEY"] = Unset
    /\ ~SwitchOn
    /\ Annotation.reason = "missing_api_key"

\* C6 as stated: a call of the echo tool returns is_simulated = TRUE and
\* reason echo fallback.
C6_EchoReason ==
    Returned /\ resp.tool = "echo" =>
        Annotation.is_simulated /\ Annotation.reason = "echo_tool_fallback"

\* C6 amended: a call of the echo tool returns is_simulated = TRUE; its
\* reason is echo fallback when the switch is off and no credential of the
\* identity is missing, forced mock mode when the switch is on, and missing
\* credential otherwise.
C6_EchoSimulated ==
    Returned /\ resp.tool = "echo" =>
        /\ Annotation.is_simulated
        /\ Annotation.reason =
              IF SwitchOn THEN "forced_mock_mode"
              ELSE IF CredentialMissing(resp.server) THEN "missing_api_key"
              ELSE "echo_tool_fallback"

\* echo on github with its token set and the switch off.
C6_Witness ==
    /\ Returned
    /\ resp.tool = "echo"
    /\ resp.server = "github"
    /\ ~SwitchOn
    /\ env["GITHUB_PERSONAL_ACCESS_TOKEN"] # Unset
    /\ Annotation.reason = "echo_tool_fallback"

\* brave-search is in the map and was connected without its key.
BraveConnectedWithoutKey ==
    /\ "brave-search" \in DOMAIN servers
    /\ servers["brave-search"].status = "ready"
    /\ \A p \in servers["brave-search"].config.env : p[1] # "BRAVE_API_KEY"

\* C7 as stated: brave-search connected and ready with its credential unset:
\* a call of its tool search returns a result with success = TRUE,
\* is_simulated = TRUE and reason missing credential.
C7_ScenarioC ==
    /\ resp.kind # "none"
    /\ resp.server = "brave-search"
    /\ resp.tool = "search"
    /\ BraveConnectedWithoutKey
    /\ env["BRAVE_API_KEY"] = Unset
    => /\ Returned
       /\ resp.result.success
       /\ Annotation.is_simulated
       /\ Annotation.reason = "missing_api_key"

\* C7 amended: brave-search connected without its key has the catalog
\* <<echo>>, so a call of search raises tool-not-found; and every result
\* brave-search returns while its key is unset and the switch is off (echo,
\* or search when the key was set at connect) has success = TRUE,
\* is_simulated = TRUE and reason missing credential.
C7_ScenarioC_Amended ==
    /\ BraveConnectedWithoutKey => servers["brave-search"].tools = <<"echo">>
    /\ resp.kind # "none" /\ resp.tool = "search" /\ resp.server = "brave-search"
       /\ BraveConnectedWithoutKey
       => resp.kind = "error" /\ resp.type = "ToolNotFound"
    /\ Returned /\ resp.server = "brave-search" /\ env["BRAVE_API_KEY"] = Unset /\ ~SwitchOn
       => /\ resp.result.success
          /\ Annotation.is_simulated
          /\ Annotation.reason = "missing_api_key"

\* search is in the catalog, the key is unset at the call: simulated result.
C7_Witness ==
    /\ Returned
    /\ resp.server = "brave-search"
    /\ resp.tool = "search"
    /\ resp.result.args.query = "x"
    /\ env["BRAVE_API_KEY"] = Unset
    /\ ~SwitchOn
    /\ resp.result.success
    /\ Annotation.reason = "missing_api_key"

\* C8: a decision of simulated runs the simulated path; a decision of real
\* for an identity without a real strategy runs the simulated path too; a
\* real strategy runs only for its own identity and only on a decision of real.
C8_FailSafeDispatch ==
    Returned =>
        /\ resp.decision.is_simulated => resp.via = "mock"
        /\ ~resp.decision.is_simulated /\ resp.server \notin {"filesystem", "brave-search"}
           => resp.via = "mock" /\ MockPayload
        /\ resp.via # "mock"
           => /\ resp.via = resp.server
              /\ resp.server \in {"filesystem", "brave-search"}
              /\ ~resp.decision.is_simulated
              /\ ~MockPayload

\* The decision was real and the identity has no strategy: simulated path.
C8_Witness ==
    /\ Returned
    /\ ~resp.decision.is_simulated
    /\ resp.server = "taskmaster-ai"
    /\ resp.via = "mock"

\* C9: executeTool raises only through its three request checks; a failure
\* inside a real strategy is a returned result with success = FALSE and a
\* non-empty error message.
C9_FailuresAreResults ==
    /\ resp.kind = "error" =>
          \/ resp.type = "NotFound" /\ resp.server \notin DOMAIN servers
          \/ resp.type = "NotReady" /\ servers[resp.server].status # "ready"
          \/ resp.type = "ToolNotFound" /\ ~hasTool(servers[resp.server].tools, resp.tool)
    /\ Returned /\ ~resp.result.success =>
          "error" \in DOMAIN resp.result /\ resp.result.error \notin {"", Null, Missing}
    /\ Returned /\ resp.via = "filesystem" =>
          LET a == resp.result.args IN
          resp.result.success <=>
             CASE resp.tool = "read_file" -> a.path \in MutablePaths /\ fs[a.path] # NoFile
               [] resp.tool = "write_file" -> a.path \in MutablePaths /\ a.content # Missing
               [] resp.tool = "list_directory" -> a.path = "."
               [] OTHER -> FALSE
    /\ Returned /\ resp.via = "brave-search" =>
          /\ resp.result.success <=>
                /\ env["BRAVE_API_KEY"] # Unset
                /\ resp.result.args.query \notin {Missing, ""}
                /\ resp.provider = "ok"
          /\ resp.result.success => resp.result.result.query = resp.result.args.query

\* read_file of a path that does not exist is a failure result.
C9_Witness ==
    /\ Returned
    /\ resp.via = "filesystem"
    /\ resp.tool = "read_file"
    /\ resp.result.args.path = "./t.txt"
    /\ ~resp.result.success
    /\ resp.result.error = "ENOENT: no such file or directory"

\* C10: a call that names a server absent from the connection map raises
\* the not-found error and returns no result, whatever the tool, the
\* arguments and the switch.
C10_UnknownServerNotFound ==
    resp.kind # "none" =>
        (resp.server \notin DOMAIN servers <=> resp.kind = "error" /\ resp.type = "NotFound")

\* An unconfigured name under the switch, the other servers being connected.
C10_Witness ==
    /\ resp.kind = "error"
    /\ resp.type = "NotFound"
    /\ resp.server = "ghost"
    /\ SwitchOn
    /\ "filesystem" \in DOMAIN servers

-----------------------------------------------------------------------------
(* The connection sweep over any set of definitions *)

\* The configured definitions with any of them stripped of its launch
\* descriptor; alpha, when kept, is launched by args alone.
DefinitionSets ==
    {[s \in ConfiguredNames |->
        IF s \in broken THEN [mcpServers[s] EXCEPT !.command = FALSE, !.args = FALSE]
        ELSE IF s = "alpha" THEN [mcpServers[s] EXCEPT !.args = TRUE]
        ELSE mcpServers[s]] : broken \in SUBSET ConfiguredNames}

\* The environments that differ in the web-search key only.
SweepEnvs ==
    {e \in Envs : \A v \in EnvVarNames \ {"BRAVE_API_KEY"} : e[v] = Unset}

InitSweep ==
    /\ Fresh
    /\ configFile = "present"
    /\ env \in SweepEnvs
    /\ defs \in DefinitionSets

\* init() alone: loadConfig, then the connections in any interleaving.
NextSweep ==
    \/ LoadConfig
    \/ \E s \in ConfiguredNames : ConnectStart(s)
    \/ \E s \in ConfiguredNames : ConnectPublish(s)
    \/ SweepDone

\* The event loop runs every continuation it has queued.
SpecSweep == InitSweep /\ [][NextSweep]_vars /\ WF_vars(NextSweep)

-----------------------------------------------------------------------------
(* Initialization from any source *)

InitAny ==
    /\ Fresh
    /\ configFile \in ConfigFiles
    /\ env \in SweepEnvs
    /\ defs \in DefinitionSets

\* init() alone, from any configuration source and any set of definitions.
SpecInit == InitAny /\ [][NextSweep]_vars

-----------------------------------------------------------------------------
(* Calls with their history *)

\* The files a disk holds.
present(disk) == {p \in MutablePaths : disk[p] # NoFile}

\* executeTool once more, remembering what the filesystem calls returned:
\* lastWrite is the latest write_file call on the filesystem identity that
\* returned success, with the function that served it; listed is the latest
\* listing a call returned, forgotten when the files of the disk change,
\* with whether it repeated the listing remembered before it.
Track(s, t, a, p) ==
    /\ Serving
    /\ LET out == executeTool(servers, fs, env, s, t, a, p)
           ok == /\ out.resp.kind = "result"
                 /\ s = "filesystem"
                 /\ out.resp.result.success
       IN
       /\ resp' = out.resp
       /\ fs' = out.disk
       /\ lastWrite' =
            IF ok /\ t = "write_file" /\ a.path # Missing /\ a.content # Missing
            THEN [path |-> a.path, content |-> a.content, via |-> out.resp.via]
            ELSE lastWrite
       /\ listed' =
            IF present(out.disk) # present(fs) THEN NoListing
            ELSE IF ok /\ t = "list_directory" /\ "entries" \in DOMAIN out.resp.result.result
            THEN [path |-> a.path, entries |-> out.resp.result.result.entries,
                  again |-> listed.path = a.path]
            ELSE listed
    /\ UNCHANGED <<phase, configFile, env, servers, tasks, defs>>

\* The environments without a credential, the switch in any position.
FileEnvs ==
    {e \in Envs : \A v \in EnvVarNames \ {"MCP_MOCK_MODE"} : e[v] = Unset}

InitFiles ==
    /\ Fresh
    /\ configFile = "present"
    /\ env \in FileEnvs
    /\ defs = mcpServers

NextFiles ==
    \/ LoadConfig
    \/ \E s \in ConfiguredNames : ConnectStart(s)
    \/ \E s \in ConfiguredNames : ConnectPublish(s)
    \/ SweepDone
    \/ \E s \in ServerNames, t \in ToolNames :
          \E a \in ArgsFor(s, t), p \in ProvidersFor(s, t) : Track(s, t, a, p)
    \/ \E x \in EnvValues("MCP_MOCK_MODE") : SetEnv("MCP_MOCK_MODE", x)
    \/ Shutdown

SpecFiles == InitFiles /\ [][NextFiles]_vars

-----------------------------------------------------------------------------
(* Claims C11..C20 *)

\* The step made a call (only executeTool leaves an outcome in resp).
Called == resp'.kind # "none"

\* C11: a call that names a server of the map is settled by the checks in
\* their order: a server that is not ready raises not-ready; a ready server
\* whose catalog lacks the tool raises tool-not-found, and that step produces
\* no result and leaves the filesystem as it was; only a tool of the catalog
\* gets a result.
C11_ToolNotFoundBeforeDispatch ==
    [][(Called /\ resp'.server \in DOMAIN servers) =>
         LET server == servers[resp'.server] IN
         IF server.status # "ready"
         THEN resp'.kind = "error" /\ resp'.type = "NotReady" /\ fs' = fs
         ELSE /\ resp'.kind = "error" =>
                    /\ resp'.type = "ToolNotFound"
                    /\ \A i \in 1..Len(server.tools) : server.tools[i] # resp'.tool
                    /\ fs' = fs
              /\ resp'.kind = "result" =>
                    \E i \in 1..Len(server.tools) : server.tools[i] = resp'.tool]_vars

\* write_file asked of a ready server whose catalog has only echo.
C11_Witness ==
    /\ resp.kind = "error" /\ resp.type = "ToolNotFound"
    /\ resp.server = "github" /\ resp.tool = "write_file"
    /\ servers["github"].status = "ready"
    /\ servers["github"].tools = <<"echo">>

\* The definition has no launch descriptor: neither command nor args.
LacksLaunchDescriptor(s) == ~defs[s].command /\ ~defs[s].args

\* C12: a definition without a launch descriptor is rejected by its
\* connection and never enters the server map, so a call that names it fails
\* with not-found; and no entry of the map is ever seen half-built, with
\* status 'connecting'.
C12_InvalidDefinitionAbsent ==
    /\ \A s \in ConfiguredNames : LacksLaunchDescriptor(s) =>
          /\ s \notin DOMAIN servers
          /\ tasks[s].pc \in {"idle", "rejected"}
          /\ (resp.kind # "none" /\ resp.server = s) =>
                (resp.kind = "error" /\ resp.type = "NotFound")
    /\ \A s \in DOMAIN servers : servers[s].status # "connecting"

\* After the sweep rejected alpha, a call named it.
C12_Witness ==
    /\ phase = "running"
    /\ LacksLaunchDescriptor("alpha")
    /\ tasks["alpha"].pc = "rejected"
    /\ DOMAIN servers = ConfiguredNames \ {"alpha"}
    /\ resp.kind = "error" /\ resp.type = "NotFound" /\ resp.server = "alpha"

\* Every definition with a launch descriptor is in the map, ready.
ValidAllReady ==
    \A s \in ConfiguredNames : (defs[s].command \/ defs[s].args) =>
        (s \in DOMAIN servers /\ servers[s].status = "ready")

\* C13: whatever definitions fail and however the connections interleave,
\* the sweep comes to its end without failing, and at its end every valid
\* definition is in the server map with status ready.
C13_SweepIndependent ==
    (phase = "sweeping") ~> (phase = "running" /\ ValidAllReady)

\* The sweep ended with three definitions rejected and three connected.
C13_Witness ==
    /\ phase = "running"
    /\ \A s \in {"github", "memory", "brave-search"} : tasks[s].pc = "rejected"
    /\ \A s \in {"filesystem", "taskmaster-ai", "alpha"} :
          s \in DOMAIN servers /\ servers[s].status = "ready"

\* C14: while the sweep runs (the environment is the one the connections
\* read), the configuration of a connected server holds, for each declared
\* pair, the value of the variable under the configuration key when the
\* variable is set and nothing under that key when it is not; and a server
\* whose connection finished is reported ready by the discovery query
\* whether its variables were set or not.
C14_InjectionIsSoft ==
    phase = "sweeping" =>
        \A s \in ConfiguredNames :
            /\ s \in DOMAIN servers =>
                 \A p \in defs[s].envVars :
                    IF getenv(env, p[2]) # Unset
                    THEN <<p[1], getenv(env, p[2])>> \in servers[s].config.env
                    ELSE \A q \in servers[s].config.env : q[1] # p[1]
            /\ tasks[s].pc = "connected" =>
                 /\ s \in DOMAIN getAvailableTools(servers)
                 /\ getAvailableTools(servers)[s].status = "ready"

\* The web-search and github servers connected with their variables unset.
C14_Witness ==
    /\ phase = "sweeping"
    /\ getenv(env, "BRAVE_API_KEY") = Unset
    /\ \A s \in {"brave-search", "github"} :
          /\ tasks[s].pc = "connected"
          /\ defs[s].envVars # {}
          /\ s \in DOMAIN servers
          /\ servers[s].config.env = {}
          /\ getAvailableTools(servers)[s].status = "ready"

\* The catalog an identity is due, given whether the web-search key was in
\* the environment of its connection.
DueCatalog(s, keyAtConnect) ==
    CASE s = "filesystem" -> <<"read_file", "write_file", "list_directory">>
      [] s = "brave-search" /\ keyAtConnect -> <<"search", "web_search">>
      [] s = "taskmaster-ai" -> <<"create_project", "add_task", "get_project_status">>
      [] OTHER -> <<"echo">>

\* C15: every catalog discovery yields, published or about to be, is the
\* real list of the identity when it has one (filesystem always, web search
\* when its key was injected), else the generic list of the identity, which
\* for an identity the generic table does not name is the single echo tool;
\* it is never empty and no connection of a valid definition fails in
\* discovery.
C15_TwoTierDiscovery ==
    \A s \in ConfiguredNames :
        LET due == DueCatalog(s, getenv(env, "BRAVE_API_KEY") # Unset) IN
        /\ s \in DOMAIN servers =>
              servers[s].tools = due /\ Len(servers[s].tools) > 0
        /\ tasks[s].pc = "discovering" => tasks[s].found = due
        /\ tasks[s].pc = "rejected" => LacksLaunchDescriptor(s)

\* alpha, no identity of either tier, got echo; web search, connected with
\* its key, got the real list.
C15_Witness ==
    /\ phase = "running"
    /\ DOMAIN servers = ConfiguredNames
    /\ servers["alpha"].tools = <<"echo">>
    /\ servers["brave-search"].tools = <<"search", "web_search">>
    /\ servers["filesystem"].tools = <<"read_file", "write_file", "list_directory">>
    /\ servers["github"].tools = <<"echo">>

\* The configured identities that have neither a real catalog nor a real
\* strategy.
StubServers == {"github", "memory", "taskmaster-ai"}

\* C16: a server without a real integration has the single echo tool as its
\* catalog, and every result it returns is annotated is_simulated = true.
C16_StubServersEchoOnly ==
    \A s \in StubServers :
        /\ s \in DOMAIN servers => servers[s].tools = <<"echo">>
        /\ (Returned /\ resp.server = s) => Annotation.is_simulated

\* The call went to an identity with a real strategy whose credential
\* requirement is met in the environment of the call.
RealStrategyDue ==
    \/ resp.server = "filesystem"
    \/ resp.server = "brave-search" /\ env["BRAVE_API_KEY"] # Unset

\* The payload of a successful result is the real data: the content of the
\* file on disk, the entries of the directory on disk, the written content
\* now on disk, or what the provider answered.
RealPayload ==
    LET r == resp.result IN
    CASE resp.server = "filesystem" /\ resp.tool = "read_file" ->
            r.args.path \in MutablePaths /\ r.result.content = fs[r.args.path]
      [] resp.server = "filesystem" /\ resp.tool = "write_file" ->
            r.args.path \in MutablePaths /\ fs[r.args.path] = r.args.content
      [] resp.server = "filesystem" /\ resp.tool = "list_directory" ->
            /\ r.args.path = "."
            /\ [name |-> "sub", type |-> "directory"] \in r.result.entries
            /\ [name |-> "locked.txt", type |-> "file"] \in r.result.entries
            /\ \A i \in 1..MaxFiles :
                  [name |-> Files[i].name, type |-> "file"] \in r.result.entries
                      <=> fs[Files[i].path] # NoFile
      [] OTHER ->
            resp.provider = "ok" /\ r.result.web = "provider results"

\* C17 as stated: with the switch off, every result of a call to a
\* catalogued tool of an identity with a real strategy and its credential
\* met comes from that strategy, is annotated is_simulated = false and does
\* not carry the mock payload.
C17_RealStrategyRuns ==
    (Returned /\ ~SwitchOn /\ RealStrategyDue) =>
        /\ resp.via = resp.server
        /\ ~Annotation.is_simulated
        /\ ~MockPayload

\* C17, amended: the same for every catalogued tool but the echo stub; and
\* when the strategy succeeds the payload is the real data.
C17_RealStrategyRuns_Amended ==
    (Returned /\ ~SwitchOn /\ RealStrategyDue /\ resp.tool # "echo") =>
        /\ resp.via = resp.server
        /\ ~Annotation.is_simulated
        /\ ~MockPayload
        /\ resp.result.success => RealPayload

\* A search answered by the provider, returned as real data.
C17_Witness ==
    /\ Returned /\ ~SwitchOn
    /\ resp.server = "brave-search" /\ resp.tool = "search"
    /\ env["BRAVE_API_KEY"] # Unset
    /\ resp.result.success
    /\ resp.result.result.web = "provider results"
    /\ ~Annotation.is_simulated

\* The latest call returned a result for read_file of the path the latest
\* successful write_file call wrote (no write_file call on that path has
\* returned success in between: lastWrite would name it).
ReadAfterWrite ==
    /\ Returned
    /\ resp.server = "filesystem" /\ resp.tool = "read_file"
    /\ lastWrite.path # Missing
    /\ resp.result.args.path = lastWrite.path

\* The result is a success whose content is that of the latest write.
ReadsBackWritten ==
    /\ resp.result.success
    /\ "content" \in DOMAIN resp.result.result
    /\ resp.result.result.content = lastWrite.content

\* C18 as stated: read_file of a path after a write_file call on it that
\* returned success returns a success whose content is the written one.
C18_RoundTrip == ReadAfterWrite => ReadsBackWritten

\* C18, amended: the same when the real filesystem strategy served both
\* calls (neither was simulated).
C18_RoundTrip_Amended ==
    (ReadAfterWrite /\ lastWrite.via = "filesystem" /\ resp.via = "filesystem")
        => ReadsBackWritten

\* The empty string written by the real strategy and read back.
C18_Witness ==
    /\ ReadAfterWrite
    /\ lastWrite.via = "filesystem" /\ resp.via = "filesystem"
    /\ lastWrite.content = ""
    /\ resp.result.success
    /\ resp.result.result.content = ""

\* The latest call returned a result for list_directory of the directory of
\* the mutable files.
ListedRoot ==
    /\ Returned
    /\ resp.server = "filesystem" /\ resp.tool = "list_directory"
    /\ resp.result.args.path = "."

\* The result is a success with an entry of type 'file' for the path.
ListsFile(p) ==
    /\ resp.result.success
    /\ "entries" \in DOMAIN resp.result.result
    /\ [name |-> entryName(p), type |-> "file"] \in resp.result.result.entries

-----------------------------------------------------------------------------
(* Claims C21..C30 *)

\* The HTTP response to the request whose call of executeTool is the latest.
Response == executeEndpoint(resp)

\* C21: the response to a call whose result is annotated is_simulated = true
\* carries the transparency headers (mode simulation, the warning, the
\* server status of the annotation); the response to any other call carries
\* none.
C21_TransparencyHeaders ==
    resp.kind # "none" =>
        IF Returned /\ Annotation.is_simulated
        THEN /\ DOMAIN Response.headers = {"mode", "warning", "serverStatus"}
             /\ Response.headers.mode = "simulation"
             /\ Response.headers.serverStatus = Annotation.server_status
        ELSE Response.headers = NoHeaders

C23_InitOutcome ==
    /\ configFile \in {"absent", "nosection"} =>
          (phase \in {"new", "running"} /\ servers = EmptyMap)
    /\ configFile = "malformed" =>
          (phase \in {"new", "failed"} /\ servers = EmptyMap)
    /\ configFile = "present" => phase \in {"new", "sweeping", "running"}
    /\ phase = "failed" => configFile = "malformed"

\* init() done on a source none of whose definitions can be launched.
C23_Witness ==
    /\ phase = "running"
    /\ configFile = "present"
    /\ \A s \in ConfiguredNames : LacksLaunchDescriptor(s) /\ tasks[s].pc = "rejected"
    /\ servers = EmptyMap

\* C24: a connection settles once, published as 'ready' or rejected and
\* left out, and stays as it settled (no second attempt); an entry of the
\* map appears in the step that ends its connection, ready and with retry
\* counter 0, never changes while it is in the map, and leaves the map only
\* when shutdown clears it.
C24_SettlesOnce ==
    [][\A s \in ConfiguredNames :
        /\ tasks[s].pc \in {"connected", "rejected"} => tasks'[s] = tasks[s]
        /\ tasks[s].pc = "rejected" => s \notin DOMAIN servers'
        /\ (s \notin DOMAIN servers /\ s \in DOMAIN servers') =>
              /\ tasks[s].pc = "discovering" /\ tasks'[s].pc = "connected"
              /\ getServerStatus(servers')[s].status = "ready"
              /\ getServerStatus(servers')[s].retryCount = 0
        /\ (s \in DOMAIN servers /\ s \in DOMAIN servers') =>
              /\ servers'[s] = servers[s]
              /\ getServerStatus(servers')[s].status = "ready"
              /\ getServerStatus(servers')[s].retryCount = 0
        /\ (s \in DOMAIN servers /\ s \notin DOMAIN servers') => phase' = "stopped"
      ]_vars

\* Long after the sweep (a call was served), every connection is as it
\* settled.
C24_Witness ==
    /\ phase = "running"
    /\ Returned
    /\ tasks["alpha"].pc = "rejected" /\ "alpha" \notin DOMAIN servers
    /\ \A s \in ConfiguredNames \ {"alpha"} :
          /\ tasks[s].pc = "connected"
          /\ s \in DOMAIN servers
          /\ getServerStatus(servers)[s].status = "ready"
          /\ getServerStatus(servers)[s].retryCount = 0

\* C25: a step that makes a call, whatever its outcome, leaves the server
\* map as it was, every status and catalog with it, so the discovery,
\* status and health queries answer after the call what they answered
\* before it.
C25_ExecuteFrame ==
    [][Called =>
         /\ servers' = servers
         /\ getAvailableTools(servers') = getAvailableTools(servers)
         /\ getServerStatus(servers') = getServerStatus(servers)
         /\ healthCheck(servers') = healthCheck(servers)]_vars

\* A call that came back as a structured failure, the map whole.
C25_Witness ==
    /\ Returned
    /\ ~resp.result.success
    /\ resp.server = "brave-search"
    /\ DOMAIN getAvailableTools(servers) = ConfiguredNames \ {"alpha"}
    /\ healthCheck(servers).readyServers = 5

\* C26: in every state, the sweep half done or over, each entry of the map
\* is ready with a non-empty catalog; so no call raises not-ready, the
\* health query counts every server ready, and it reports 'degraded'
\* exactly when the map is empty.
C26_MapAlwaysReady ==
    /\ \A s \in DOMAIN servers :
          servers[s].status = "ready" /\ Len(servers[s].tools) > 0
    /\ resp.kind = "error" => resp.type # "NotReady"
    /\ healthCheck(servers).readyServers = healthCheck(servers).totalServers
    /\ healthCheck(servers).status = "degraded" <=> servers = EmptyMap
    /\ healthCheck(servers).status \in {"healthy", "degraded"}

\* The sweep half done: two entries published, one connection still in
\* discovery, one not started.
C26_Witness ==
    /\ phase = "sweeping"
    /\ DOMAIN servers = {"filesystem", "github"}
    /\ tasks["brave-search"].pc = "discovering"
    /\ tasks["memory"].pc = "idle"
    /\ healthCheck(servers).status = "healthy"
    /\ healthCheck(servers).readyServers = 2

\* The annotation carries the warning and a non-empty guidance text.
Warned ==
    /\ {"warning", "guidance"} \subseteq DOMAIN Annotation
    /\ Annotation.warning \notin {Null, Missing, ""}
    /\ Annotation.guidance \notin {Null, Missing, ""}

\* C27: in the annotation of every result, is_simulated = true goes with
\* confidence mock_data, server status degraded, a reason and the warning
\* with a non-empty guidance, each of them if and only if the others;
\* is_simulated = false goes with real_data, operational, no reason and
\* neither warning nor guidance.
C27_AnnotationConsistent ==
    Returned =>
        LET sim == Annotation.is_simulated IN
        /\ sim \in BOOLEAN
        /\ Annotation.confidence \in {"mock_data", "real_data"}
        /\ Annotation.server_status \in {"degraded", "operational"}
        /\ sim <=> Annotation.confidence = "mock_data"
        /\ sim <=> Annotation.server_status = "degraded"
        /\ sim <=> Annotation.reason # Null
        /\ sim <=> Warned
        /\ ~sim => DOMAIN Annotation \cap {"warning", "guidance"} = {}

\* A result simulated for a missing credential, with its guidance.
C27_Witness ==
    /\ Returned
    /\ Annotation.is_simulated
    /\ Annotation.reason = "missing_api_key"
    /\ Annotation.confidence = "mock_data"
    /\ Annotation.server_status = "degraded"
    /\ Warned

\* C28: a step whose call was decided 'simulated' is served by the mock
\* function, leaves the filesystem as it was and calls no provider, and for
\* write_file it still returns success = true; a read_file served by the
\* real strategy after a simulated write of its path returns what is on
\* disk (a failure when the path has no file), not what that write carried.
C28_SimulationHasNoEffect ==
    [][(Called /\ resp'.kind = "result") =>
         /\ resp'.decision.is_simulated =>
               /\ resp'.via = "mock"
               /\ fs' = fs
               /\ resp'.provider = NoProvider
               /\ resp'.tool = "write_file" => resp'.result.success
         /\ (/\ resp'.server = "filesystem" /\ resp'.tool = "read_file"
             /\ resp'.via = "filesystem"
             /\ lastWrite'.path # Missing
             /\ lastWrite'.path = resp'.result.args.path
             /\ lastWrite'.via = "mock") =>
               IF lastWrite'.path \in MutablePaths /\ fs'[lastWrite'.path] # NoFile
               THEN /\ resp'.result.success
                    /\ resp'.result.result.content = fs'[lastWrite'.path]
               ELSE ~resp'.result.success]_vars

\* 'hello' was written to ./t.txt under simulation; the real read that
\* followed found no file.
C28_Witness ==
    /\ ReadAfterWrite
    /\ lastWrite.via = "mock" /\ lastWrite.path = "./t.txt"
    /\ lastWrite.content = "hello"
    /\ resp.via = "filesystem"
    /\ ~resp.result.success
    /\ fs["./t.txt"] = NoFile

\* C29: a change of the environment leaves the server map, its catalogs
\* included, as it was; and the decision of a call is the one its server
\* name, its tool name and the environment of that very step give: simulated
\* exactly when the switch is on, the credential of the identity is missing
\* or the tool is echo, whatever catalog the connection left and whatever
\* was called before.
C29_DecisionFromCallEnvironment ==
    [][/\ env' # env => servers' = servers
       /\ (Called /\ resp'.kind = "result") =>
             /\ env' = env
             /\ resp'.decision.is_simulated <=>
                   \/ env'["MCP_MOCK_MODE"] = "true"
                   \/ resp'.server = "brave-search" /\ env'["BRAVE_API_KEY"] = Unset
                   \/ resp'.server = "github" /\ env'["GITHUB_PERSONAL_ACCESS_TOKEN"] = Unset
                   \/ resp'.server = "memory" /\
                         (env'["CLOUD_MEMORY_URL"] = Unset \/ env'["CLOUD_MEMORY_API_KEY"] = Unset)
                   \/ resp'.tool = "echo"
             /\ resp'.result.white_rabbit.is_simulated = resp'.decision.is_simulated]_vars

\* The web-search catalog still lists the search tools of a connection made
\* with the key; the key is gone and web_search comes back simulated.
C29_Witness ==
    /\ Returned
    /\ resp.server = "brave-search" /\ resp.tool = "web_search"
    /\ servers["brave-search"].tools = <<"search", "web_search">>
    /\ env["BRAVE_API_KEY"] = Unset
    /\ env["MCP_MOCK_MODE"] = Unset
    /\ resp.decision.is_simulated
    /\ resp.decision.reason = "missing_api_key"

\* C30: once shutdown has run the client stays stopped with an empty server
\* map: every call made then raises not-found, the discovery query lists
\* no server and the health query reports 'degraded' with totalServers = 0.
C30_StoppedStaysEmpty ==
    [][/\ phase = "stopped" => phase' = "stopped"
       /\ phase' = "stopped" =>
             /\ servers' = EmptyMap
             /\ DOMAIN getAvailableTools(servers') = {}
             /\ healthCheck(servers').status = "degraded"
             /\ healthCheck(servers').totalServers = 0
             /\ Called => (resp'.kind = "error" /\ resp'.type = "NotFound")]_vars

\* After shutdown a call named the filesystem server, connected before.
C30_Witness ==
    /\ phase = "stopped"
    /\ tasks["filesystem"].pc = "connected"
    /\ servers = EmptyMap
    /\ resp.kind = "error" /\ resp.type = "NotFound" /\ resp.server = "filesystem"
    /\ healthCheck(servers).status = "degraded"

====
